---- MODULE Spec2Model ----
(***************************************************************************)
(* REPLITE-AGENT control plane: the express route handlers of              *)
(* server/routes.ts over the durable store of server/storage.ts, and the   *)
(* events they hand to StreamingService.broadcast (specification Spec);    *)
(* and the StreamingService registry with its sockets (SpecBus).           *)
(* SpecPending reads a session's pending approvals, SpecCurrent is         *)
(* GET /api/sessions/current with its module-level defaultSessionId, and   *)
(* SpecHook is the browser's useWebSocket hook with its sockets and        *)
(* reconnect timers.  SpecModal is the page's approval modal fed by the    *)
(* events of its session, and SpecManager is the StorageManager of         *)
(* server/storage-providers.ts.                                            *)
(*                                                                         *)
(* A route handler is an async function.  Every `await storage.x(...)` is  *)
(* one atomic statement of the database; the synchronous code that follows *)
(* it runs later, so other handlers' statements may come in between.  Each *)
(* handler in flight occupies a slot of `reqs` that records where it is    *)
(* and its local variables.                                                *)
(*                                                                         *)
(* Rows are numbered in creation order: the row id stands for the          *)
(* gen_random_uuid() primary key, and a larger id is a later createdAt.    *)
(***************************************************************************)
EXTENDS Integers, Sequences, FiniteSets, TLC

VARIABLES
    sessions,   \* table sessions: sequence of rows, id = position
    tasks,      \* table tasks
    approvals,  \* table approvals
    events,     \* the events passed to StreamingService.broadcast, in call order
    reqs,       \* the route handlers in flight, one per slot
    clock,      \* the wall clock read by new Date(); every reading is later
    nreq,       \* number of requests accepted so far
    res,        \* the response sent last: res.status(code).json(...)
    clients,    \* StreamingService.clients: session id -> its clients, in order
    sockets,    \* the WebSocket connections the server has seen, by number
    defaultSessionId, \* routes.ts: let defaultSessionId, None for null
    hook,       \* one useWebSocket instance: its props, state and refs
    wsockets,   \* the browser WebSockets the hook has created, by number
    timers,     \* the reconnect timers the hook has set, by number
    page,       \* Home and its Workspace: the state the approval modal reads
    providers,  \* StorageManager.providers: name -> provider
    defaultProvider, \* StorageManager.defaultProvider
    got         \* the StorageManager call made last and how it ended

routeVars == <<sessions, tasks, approvals, events, reqs, clock, nreq, res>>
busVars == <<clients, sockets>>
hookVars == <<hook, wsockets, timers>>
managerVars == <<providers, defaultProvider, got>>
vars == <<routeVars, busVars, defaultSessionId, hookVars, page, managerVars>>

\* What the route handlers above the default session leave alone, and what
\* the StreamingService leaves alone besides the routes' state.
offRoute == <<busVars, defaultSessionId, hookVars, page, managerVars>>
offBus == <<defaultSessionId, hookVars, page, managerVars>>

(***************************** bounds **************************************)
MaxSessions == 2
MaxTasks == 2
MaxApprovals == 1
MaxInflight == 2
MaxRequests == 2
MaxSockets == 3
MaxPublished == 2
MaxPings == 1
MaxPending == 3
MaxCurrent == 3
MaxClientSockets == 6
MaxSessionChanges == 1
MaxNotices == 2

SessionIds == 1..MaxSessions
TaskIds == 1..MaxTasks
ApprovalIds == 1..MaxApprovals
Slots == 1..MaxInflight

(***************************** schema **************************************)
\* SQL NULL in the nullable id and timestamp columns (task_id, resolved_at), and
\* an absent taskId or number in an event.
None == 0
\* SQL NULL in tasks.error
NoError == "null"

\* The actions the approval modal treats as destructive.
isDestructive == {"delete_file", "git_push", "shell_exec", "docker_run"}

\* The plan the message route gives every task it creates.
MessagePlan == <<"check_tool", "shell_exec">>

\* The row the message route hands to storage.createTask.
MessageTask(sessionId) ==
    [sessionId |-> sessionId, status |-> "pending", plan |-> MessagePlan,
     currentStep |-> 0, totalSteps |-> 2, error |-> NoError, retryCount |-> 0]

\* Other rows handed to storage.createTask: a one-step destructive plan, and a
\* task that failed at its second step.
TaskInserts(sessionId) ==
    { [sessionId |-> sessionId, status |-> "pending", plan |-> <<"delete_file">>,
       currentStep |-> 0, totalSteps |-> 1, error |-> NoError, retryCount |-> 0],
      [sessionId |-> sessionId, status |-> "failed", plan |-> MessagePlan,
       currentStep |-> 1, totalSteps |-> 2, error |-> "step failed", retryCount |-> 0] }

\* Rows handed to storage.createSession (status and the two mode flags).
SessionInserts ==
    { [status |-> "idle", dryRunMode |-> TRUE, allowDestructive |-> FALSE],
      [status |-> "running", dryRunMode |-> FALSE, allowDestructive |-> FALSE] }

(***************************** storage *************************************)
\* .set({...updates}) : the columns named by updates are overwritten.
Merge(row, updates) ==
    [f \in DOMAIN row |-> IF f \in DOMAIN updates THEN updates[f] ELSE row[f]]

createSession(insertSession) == Append(sessions, insertSession)

updateSession(id, updates) ==
    IF id \in DOMAIN sessions
    THEN [sessions EXCEPT ![id] = Merge(@, updates)]
    ELSE sessions

createTask(insertTask) == Append(tasks, insertTask)

\* An UPDATE whose WHERE clause matches the session of the task, not the task.
updateTask_wholeSession(id, updates) ==
    IF id \in DOMAIN tasks
    THEN [t \in DOMAIN tasks |->
            IF tasks[t].sessionId = tasks[id].sessionId
            THEN Merge(tasks[t], updates) ELSE tasks[t]]
    ELSE tasks

updateTask(id, updates) ==
    IF id \in DOMAIN tasks
    THEN [tasks EXCEPT ![id] = Merge(@, updates)]
    ELSE tasks

RECURSIVE TasksDesc(_, _)
TasksDesc(sessionId, n) ==
    IF n = 0 THEN <<>>
    ELSE (IF tasks[n].sessionId = sessionId THEN <<n>> ELSE <<>>)
         \o TasksDesc(sessionId, n - 1)

\* where sessionId = ? order by createdAt desc
getTasksBySession(sessionId) == TasksDesc(sessionId, Len(tasks))

createApproval(insertApproval) ==
    Append(approvals, Merge([sessionId |-> None, taskId |-> None, action |-> "",
                             status |-> "pending", resolvedAt |-> None],
                            insertApproval))

resolveApproval(id, status, now) ==
    IF id \in DOMAIN approvals
    THEN [approvals EXCEPT ![id] = Merge(@, [status |-> status, resolvedAt |-> now])]
    ELSE approvals

getPendingApprovals(sessionId) ==
    { a \in DOMAIN approvals :
        approvals[a].sessionId = sessionId /\ approvals[a].status = "pending" }

(***************************** streaming ***********************************)
StreamEvent(type, sessionId, taskId, index, total, detail) ==
    [type |-> type, sessionId |-> sessionId, taskId |-> taskId,
     index |-> index, total |-> total, detail |-> detail]

sendLogLine(sessionId, taskId, message) ==
    StreamEvent("log_line", sessionId, taskId, None, None, message)
sendTaskStart(sessionId, taskId) ==
    StreamEvent("task_start", sessionId, taskId, None, None, "")
\* A task_step event that numbers the steps from 1.
sendTaskStep_fromOne(sessionId, taskId, stepIndex, totalSteps, action) ==
    StreamEvent("task_step", sessionId, taskId, stepIndex + 1, totalSteps, action)
sendTaskStep(sessionId, taskId, stepIndex, totalSteps, action) ==
    StreamEvent("task_step", sessionId, taskId, stepIndex, totalSteps, action)
sendTaskComplete(sessionId, taskId) ==
    StreamEvent("task_complete", sessionId, taskId, None, None, "success")
sendTaskError(sessionId, taskId, error) ==
    StreamEvent("task_error", sessionId, taskId, None, None, error)
\* data: { approval }: the event carries the approval row; its id stands for it.
sendApprovalRequired(sessionId, taskId, approval) ==
    StreamEvent("approval_required", sessionId, taskId, approval, None,
                approvals[approval].action)
sendApprovalResolved(sessionId, approvalId, status) ==
    StreamEvent("approval_resolved", sessionId, None, approvalId, None, status)

\* The events after the given ones have been broadcast, in order.
broadcast(evs) == events \o evs

(***************************** StorageManager ******************************)
\* The optional argument `name?: string` when the caller leaves it out.
Undefined == "<undefined>"

LocalStorageProvider == [name |-> "local", class |-> "LocalStorageProvider"]
S3StorageProvider == [name |-> "s3", class |-> "S3StorageProvider"]

\* What a call hands back when it ends in `throw new Error(...)`.
Thrown == [name |-> "<error>", class |-> "Error"]
\* What a call of a void method hands back.
Void == [name |-> "<void>", class |-> "void"]

\* this.providers.set(provider.name, provider)
registerProvider(map, provider) ==
    [n \in DOMAIN map \cup {provider.name} |->
        IF n = provider.name THEN provider ELSE map[n]]

\* if (!this.providers.has(name)) throw ...; this.defaultProvider = name
setDefaultProvider(map, default, name) ==
    IF name \notin DOMAIN map
    THEN [defaultProvider |-> default, result |-> Thrown]
    ELSE [defaultProvider |-> name, result |-> Void]

\* const providerName = name || this.defaultProvider: the empty string is
\* falsy, as undefined is.
getProvider(map, default, name) ==
    LET providerName == IF name = Undefined \/ name = "" THEN default ELSE name IN
    IF providerName \in DOMAIN map THEN map[providerName] ELSE Thrown

(***************************** requests ************************************)
IdleReq ==
    [kind |-> "none", pc |-> "idle", id |-> None, sessionId |-> None,
     plan |-> <<>>, i |-> 0, todo |-> <<>>, status |-> ""]

Req(kind, pc, id) == [IdleReq EXCEPT !.kind = kind, !.pc = pc, !.id = id]

\* res.status(code).json(...) of the handler for `kind` called with :id
Response(kind, id, code) == [kind |-> kind, id |-> id, code |-> code]

Free(r) == reqs[r].pc = "idle"

\* A new request takes the lowest free slot.
CanStart(r) ==
    /\ nreq < MaxRequests
    /\ Free(r)
    /\ \A q \in 1..(r - 1) : ~Free(q)

Init ==
    /\ sessions = <<>>
    /\ tasks = <<>>
    /\ approvals = <<>>
    /\ events = <<>>
    /\ reqs = [r \in Slots |-> IdleReq]
    /\ clock = 1
    /\ nreq = 0
    /\ res = Response("none", None, 0)
    /\ clients = <<>>
    /\ sockets = <<>>
    /\ defaultSessionId = None
    /\ hook = [mounted |-> FALSE, sessionId |-> None, changes |-> 0,
               status |-> "disconnected", error |-> NoError, wsRef |-> None,
               reconnectCount |-> 0, reconnectTimeout |-> None]
    /\ wsockets = <<>>
    /\ timers = <<>>
    /\ page = [loaded |-> FALSE, sessionId |-> None, currentApproval |-> None,
               approvalOpen |-> FALSE, seen |-> 0]
    /\ providers = registerProvider(<<>>, LocalStorageProvider)
    /\ defaultProvider = "local"
    /\ got = [call |-> "constructor", name |-> Undefined, result |-> Void]

(***************************** rows created ********************************)
\* POST /api/sessions
CreateSession(insertSession) ==
    /\ Len(sessions) < MaxSessions
    /\ sessions' = createSession(insertSession)
    /\ UNCHANGED <<tasks, approvals, events, reqs, clock, nreq, res>>
    /\ UNCHANGED offRoute

\* storage.createTask; tasks.session_id references sessions.id
CreateTask(insertTask) ==
    /\ Len(tasks) < MaxTasks
    /\ insertTask.sessionId \in DOMAIN sessions
    /\ tasks' = createTask(insertTask)
    /\ UNCHANGED <<sessions, approvals, events, reqs, clock, nreq, res>>
    /\ UNCHANGED offRoute

\* storage.createApproval for the step a task stands at
CreateApproval(taskId) ==
    /\ Len(approvals) < MaxApprovals
    /\ taskId \in DOMAIN tasks
    /\ tasks[taskId].currentStep < Len(tasks[taskId].plan)
    /\ approvals' = createApproval(
           [sessionId |-> tasks[taskId].sessionId, taskId |-> taskId,
            action |-> tasks[taskId].plan[tasks[taskId].currentStep + 1]])
    /\ UNCHANGED <<sessions, tasks, events, reqs, clock, nreq, res>>
    /\ UNCHANGED offRoute

(***************************** POST /api/tasks/:id/run *********************)
RunGetTask(r, id) ==
    /\ CanStart(r)
    /\ nreq' = nreq + 1
    /\ reqs' = [reqs EXCEPT ![r] =
                  IF id \in DOMAIN tasks
                  THEN [Req("run", "run_set_running", id) EXCEPT
                           !.sessionId = tasks[id].sessionId,
                           !.plan = tasks[id].plan]
                  ELSE IdleReq]
    /\ res' = IF id \in DOMAIN tasks THEN res ELSE Response("run", id, 404)
    /\ UNCHANGED <<sessions, tasks, approvals, events, clock>>
    /\ UNCHANGED offRoute

RunSetRunning(r) ==
    /\ reqs[r].pc = "run_set_running"
    /\ tasks' = updateTask(reqs[r].id, [status |-> "running", currentStep |-> 0])
    /\ reqs' = [reqs EXCEPT ![r].pc = "run_begin"]
    /\ UNCHANGED <<sessions, approvals, events, clock, nreq, res>>
    /\ UNCHANGED offRoute

RunBegin(r) ==
    LET q == reqs[r] IN
    /\ q.pc = "run_begin"
    /\ events' = broadcast(
           <<sendTaskStart(q.sessionId, q.id)>> \o
           (IF Len(q.plan) > 0
            THEN <<sendTaskStep(q.sessionId, q.id, 0, Len(q.plan), q.plan[1])>>
            ELSE <<>>))
    /\ reqs' = [reqs EXCEPT ![r].i = 0,
                            ![r].pc = IF Len(q.plan) > 0 THEN "run_step"
                                      ELSE "run_complete"]
    /\ UNCHANGED <<sessions, tasks, approvals, clock, nreq, res>>
    /\ UNCHANGED offRoute

\* A loop that records the index of the step instead of the number of steps done.
RunStep_recordsIndex(r) ==
    /\ reqs[r].pc = "run_step"
    /\ tasks' = updateTask(reqs[r].id, [currentStep |-> reqs[r].i])
    /\ reqs' = [reqs EXCEPT ![r].pc = "run_next"]
    /\ UNCHANGED <<sessions, approvals, events, clock, nreq, res>>
    /\ UNCHANGED offRoute

RunStep(r) ==
    /\ reqs[r].pc = "run_step"
    /\ tasks' = updateTask(reqs[r].id, [currentStep |-> reqs[r].i + 1])
    /\ reqs' = [reqs EXCEPT ![r].pc = "run_next"]
    /\ UNCHANGED <<sessions, approvals, events, clock, nreq, res>>
    /\ UNCHANGED offRoute

RunNext(r) ==
    LET q == reqs[r]
        i == q.i + 1 IN
    /\ q.pc = "run_next"
    /\ events' = IF i < Len(q.plan)
                 THEN broadcast(<<sendTaskStep(q.sessionId, q.id, i, Len(q.plan),
                                               q.plan[i + 1])>>)
                 ELSE events
    /\ reqs' = [reqs EXCEPT ![r].i = i,
                            ![r].pc = IF i < Len(q.plan) THEN "run_step"
                                      ELSE "run_complete"]
    /\ UNCHANGED <<sessions, tasks, approvals, clock, nreq, res>>
    /\ UNCHANGED offRoute

RunComplete(r) ==
    /\ reqs[r].pc = "run_complete"
    /\ tasks' = updateTask(reqs[r].id, [status |-> "completed"])
    /\ reqs' = [reqs EXCEPT ![r].pc = "run_finish"]
    /\ UNCHANGED <<sessions, approvals, events, clock, nreq, res>>
    /\ UNCHANGED offRoute

RunFinish(r) ==
    /\ reqs[r].pc = "run_finish"
    /\ events' = broadcast(<<sendTaskComplete(reqs[r].sessionId, reqs[r].id)>>)
    /\ reqs' = [reqs EXCEPT ![r] = IdleReq]
    /\ res' = Response(reqs[r].kind, reqs[r].id, 200)
    /\ UNCHANGED <<sessions, tasks, approvals, clock, nreq>>
    /\ UNCHANGED offRoute

\* storage.updateTask rejects inside the loop or after it: catch, status 500
RunCatch(r) ==
    /\ reqs[r].pc \in {"run_step", "run_complete"}
    /\ reqs' = [reqs EXCEPT ![r] = IdleReq]
    /\ res' = Response(reqs[r].kind, reqs[r].id, 500)
    /\ UNCHANGED <<sessions, tasks, approvals, events, clock, nreq>>
    /\ UNCHANGED offRoute

(***************************** POST /api/tasks/:id/cancel ******************)
\* A cancel that announces the cancellation before it knows the task exists.
CancelUpdate_logsFirst(r, id) ==
    /\ CanStart(r)
    /\ nreq' = nreq + 1
    /\ tasks' = updateTask(id, [status |-> "cancelled"])
    /\ events' = broadcast(<<sendLogLine(None, id, "Task cancelled by user")>>)
    /\ reqs' = [reqs EXCEPT ![r] = IdleReq]
    /\ res' = IF id \in DOMAIN tasks THEN Response("cancel", id, 200)
               ELSE Response("cancel", id, 404)
    /\ UNCHANGED <<sessions, approvals, clock>>
    /\ UNCHANGED offRoute

CancelUpdate(r, id) ==
    /\ CanStart(r)
    /\ nreq' = nreq + 1
    /\ tasks' = updateTask(id, [status |-> "cancelled"])
    /\ reqs' = [reqs EXCEPT ![r] =
                  IF id \in DOMAIN tasks
                  THEN [Req("cancel", "cancel_log", id) EXCEPT
                           !.sessionId = tasks[id].sessionId]
                  ELSE IdleReq]
    /\ res' = IF id \in DOMAIN tasks THEN res ELSE Response("cancel", id, 404)
    /\ UNCHANGED <<sessions, approvals, events, clock>>
    /\ UNCHANGED offRoute

CancelLog(r) ==
    /\ reqs[r].pc = "cancel_log"
    /\ events' = broadcast(<<sendLogLine(reqs[r].sessionId, reqs[r].id,
                                         "Task cancelled by user")>>)
    /\ reqs' = [reqs EXCEPT ![r] = IdleReq]
    /\ res' = Response(reqs[r].kind, reqs[r].id, 200)
    /\ UNCHANGED <<sessions, tasks, approvals, clock, nreq>>
    /\ UNCHANGED offRoute

(***************************** POST /api/sessions/:id/stop *****************)
StopUpdateSession(r, id) ==
    /\ CanStart(r)
    /\ nreq' = nreq + 1
    /\ sessions' = updateSession(id, [status |-> "idle"])
    /\ reqs' = [reqs EXCEPT ![r] =
                  IF id \in DOMAIN sessions
                  THEN Req("stop", "stop_get_tasks", id)
                  ELSE IdleReq]
    /\ res' = IF id \in DOMAIN sessions THEN res ELSE Response("stop", id, 404)
    /\ UNCHANGED <<tasks, approvals, events, clock>>
    /\ UNCHANGED offRoute

\* the rows read here are the ones the loop tests: task.status === "running"
StopGetTasks(r) ==
    LET running == SelectSeq(getTasksBySession(reqs[r].id),
                             LAMBDA t : tasks[t].status = "running") IN
    /\ reqs[r].pc = "stop_get_tasks"
    /\ reqs' = [reqs EXCEPT ![r].todo = running,
                            ![r].pc = IF running = <<>> THEN "stop_log"
                                      ELSE "stop_cancel"]
    /\ UNCHANGED <<sessions, tasks, approvals, events, clock, nreq, res>>
    /\ UNCHANGED offRoute

StopCancelTask(r) ==
    /\ reqs[r].pc = "stop_cancel"
    /\ tasks' = updateTask(Head(reqs[r].todo), [status |-> "cancelled"])
    /\ reqs' = [reqs EXCEPT ![r].todo = Tail(@),
                            ![r].pc = IF Tail(reqs[r].todo) = <<>> THEN "stop_log"
                                      ELSE "stop_cancel"]
    /\ UNCHANGED <<sessions, approvals, events, clock, nreq, res>>
    /\ UNCHANGED offRoute

StopLog(r) ==
    /\ reqs[r].pc = "stop_log"
    /\ events' = broadcast(<<sendLogLine(reqs[r].id, None,
                                         "Emergency stop triggered")>>)
    /\ reqs' = [reqs EXCEPT ![r] = IdleReq]
    /\ res' = Response(reqs[r].kind, reqs[r].id, 200)
    /\ UNCHANGED <<sessions, tasks, approvals, clock, nreq>>
    /\ UNCHANGED offRoute

(***************************** POST /api/approvals/:id/resolve *************)
\* req.body.dontAskAgain is read into a local and never used.
ResolveUpdate(r, id, approved, dontAskAgain) ==
    LET status == IF approved THEN "approved" ELSE "rejected" IN
    /\ CanStart(r)
    /\ nreq' = nreq + 1
    /\ clock' = clock + 1
    /\ approvals' = resolveApproval(id, status, clock)
    /\ reqs' = [reqs EXCEPT ![r] =
                  IF id \in DOMAIN approvals
                  THEN [Req("resolve", "resolve_send", id) EXCEPT
                           !.sessionId = approvals[id].sessionId,
                           !.status = status]
                  ELSE IdleReq]
    /\ res' = IF id \in DOMAIN approvals THEN res ELSE Response("resolve", id, 404)
    /\ UNCHANGED <<sessions, tasks, events>>
    /\ UNCHANGED offRoute

ResolveSend(r) ==
    /\ reqs[r].pc = "resolve_send"
    /\ events' = broadcast(<<sendApprovalResolved(reqs[r].sessionId, reqs[r].id,
                                                  reqs[r].status)>>)
    /\ reqs' = [reqs EXCEPT ![r] = IdleReq]
    /\ res' = Response(reqs[r].kind, reqs[r].id, 200)
    /\ UNCHANGED <<sessions, tasks, approvals, clock, nreq>>
    /\ UNCHANGED offRoute

(***************************** POST /api/sessions/:sessionId/messages ******)
\* storage.createMessage: messages.session_id references sessions.id
MessageCreate(r, sessionId) ==
    /\ CanStart(r)
    /\ nreq' = nreq + 1
    /\ reqs' = [reqs EXCEPT ![r] =
                  IF sessionId \in DOMAIN sessions
                  THEN Req("message", "message_log", sessionId)
                  ELSE IdleReq]
    /\ res' = IF sessionId \in DOMAIN sessions THEN res ELSE Response("message", sessionId, 500)
    /\ UNCHANGED <<sessions, tasks, approvals, events, clock>>
    /\ UNCHANGED offRoute

MessageLog(r) ==
    /\ reqs[r].pc = "message_log"
    /\ events' = broadcast(<<sendLogLine(reqs[r].id, None, "Received message")>>)
    /\ reqs' = [reqs EXCEPT ![r].pc = "message_create_task"]
    /\ UNCHANGED <<sessions, tasks, approvals, clock, nreq, res>>
    /\ UNCHANGED offRoute

MessageCreateTask(r) ==
    /\ reqs[r].pc = "message_create_task"
    /\ Len(tasks) < MaxTasks
    /\ tasks' = createTask(MessageTask(reqs[r].id))
    /\ reqs' = [reqs EXCEPT ![r] = IdleReq]
    /\ res' = Response(reqs[r].kind, reqs[r].id, 201)
    /\ UNCHANGED <<sessions, approvals, events, clock, nreq>>
    /\ UNCHANGED offRoute

(***************************** specification *******************************)
Next ==
    \/ \E ins \in SessionInserts : CreateSession(ins)
    \/ \E s \in SessionIds : \E ins \in TaskInserts(s) : CreateTask(ins)
    \/ \E t \in TaskIds : CreateApproval(t)
    \/ \E r \in Slots, t \in TaskIds : RunGetTask(r, t)
    \/ \E r \in Slots : RunSetRunning(r)
    \/ \E r \in Slots : RunBegin(r)
    \/ \E r \in Slots : RunStep(r)
    \/ \E r \in Slots : RunNext(r)
    \/ \E r \in Slots : RunComplete(r)
    \/ \E r \in Slots : RunFinish(r)
    \/ \E r \in Slots : RunCatch(r)
    \/ \E r \in Slots, t \in TaskIds : CancelUpdate(r, t)
    \/ \E r \in Slots : CancelLog(r)
    \/ \E r \in Slots, s \in SessionIds : StopUpdateSession(r, s)
    \/ \E r \in Slots : StopGetTasks(r)
    \/ \E r \in Slots : StopCancelTask(r)
    \/ \E r \in Slots : StopLog(r)
    \/ \E r \in Slots, a \in ApprovalIds, approved \in BOOLEAN,
          dontAskAgain \in BOOLEAN :
          ResolveUpdate(r, a, approved, dontAskAgain)
    \/ \E r \in Slots : ResolveSend(r)
    \/ \E r \in Slots, s \in SessionIds : MessageCreate(r, s)
    \/ \E r \in Slots : MessageLog(r)
    \/ \E r \in Slots : MessageCreateTask(r)

Spec == Init /\ [][Next]_vars

(***************************** GET /api/sessions/current *******************)
\* The row getOrCreateDefaultSession hands to storage.createSession.
DefaultSession ==
    [status |-> "idle", dryRunMode |-> TRUE, allowDestructive |-> FALSE]

\* The handler starts: `if (defaultSessionId)` and the call that follows it.
CurrentStart(r) ==
    /\ nreq < MaxCurrent
    /\ Free(r)
    /\ \A q \in 1..(r - 1) : ~Free(q)
    /\ nreq' = nreq + 1
    /\ reqs' = [reqs EXCEPT ![r] =
                  IF defaultSessionId # None
                  THEN Req("current", "current_get", defaultSessionId)
                  ELSE Req("current", "current_create", None)]
    /\ UNCHANGED <<sessions, tasks, approvals, events, clock, res>>
    /\ UNCHANGED offRoute

\* await storage.getSession(defaultSessionId); if (session) return session
CurrentGetSession(r) ==
    /\ reqs[r].pc = "current_get"
    /\ IF reqs[r].id \in DOMAIN sessions
       THEN /\ reqs' = [reqs EXCEPT ![r] = IdleReq]
            /\ res' = Response("current", reqs[r].id, 200)
       ELSE /\ reqs' = [reqs EXCEPT ![r].pc = "current_create", ![r].id = None]
            /\ res' = res
    /\ UNCHANGED <<sessions, tasks, approvals, events, clock, nreq>>
    /\ UNCHANGED offRoute

\* await storage.createSession({...})
CurrentCreateSession(r) ==
    /\ reqs[r].pc = "current_create"
    /\ sessions' = createSession(DefaultSession)
    /\ reqs' = [reqs EXCEPT ![r].pc = "current_record",
                            ![r].id = Len(sessions) + 1]
    /\ UNCHANGED <<tasks, approvals, events, clock, nreq, res>>
    /\ UNCHANGED offRoute

\* defaultSessionId = session.id; return session; res.json(session)
CurrentRecord(r) ==
    /\ reqs[r].pc = "current_record"
    /\ defaultSessionId' = reqs[r].id
    /\ reqs' = [reqs EXCEPT ![r] = IdleReq]
    /\ res' = Response("current", reqs[r].id, 200)
    /\ UNCHANGED <<sessions, tasks, approvals, events, clock, nreq, busVars, hookVars>>
    /\ UNCHANGED <<page, managerVars>>

NextCurrent ==
    \/ \E insertSession \in SessionInserts : CreateSession(insertSession)
    \/ \E r \in Slots : CurrentStart(r)
    \/ \E r \in Slots : CurrentGetSession(r)
    \/ \E r \in Slots : CurrentCreateSession(r)
    \/ \E r \in Slots : CurrentRecord(r)

SpecCurrent == Init /\ [][NextCurrent]_vars

(***************************** StreamingService ****************************)
(* The registry and the sockets of server/streaming.ts.  A socket is       *)
(* numbered in connection order; sockets[c] holds the WebSocketClient      *)
(* {ws, sessionId} made for it, ws.readyState, whether ws still has an     *)
(* 'error' event to emit, and what ws.send has written to it.  broadcast   *)
(* and the event handlers are synchronous: each runs as one step.          *)
(***************************************************************************)
\* What ws.send writes: JSON.stringify of the event, which carries the
\* timestamp read when the event was built.
Message(event, timestamp) == [event |-> event, timestamp |-> timestamp]

\* The connection acknowledgment and the answer to a ping.
Acknowledgment(sessionId) ==
    StreamEvent("session_start", sessionId, None, None, None,
                "Connected to streaming service")
Pong(sessionId) ==
    StreamEvent("session_start", sessionId, None, None, None, "pong")

\* this.clients.get(sessionId) || []
clientsOf(sessionId) ==
    IF sessionId \in DOMAIN clients THEN clients[sessionId] ELSE <<>>

addClient(sessionId, client) ==
    [k \in DOMAIN clients \cup {sessionId} |->
       IF k = sessionId THEN Append(clientsOf(sessionId), client) ELSE clients[k]]

\* A removal that stores the filtered list even when it is empty.
removeClient_keepsKey(sessionId, client) ==
    LET filtered == SelectSeq(clientsOf(sessionId), LAMBDA c : c # client) IN
    [k \in DOMAIN clients \cup {sessionId} |->
       IF k = sessionId THEN filtered ELSE clients[k]]

removeClient(sessionId, client) ==
    LET filtered == SelectSeq(clientsOf(sessionId), LAMBDA c : c # client) IN
    IF Len(filtered) > 0
    THEN [k \in DOMAIN clients \cup {sessionId} |->
            IF k = sessionId THEN filtered ELSE clients[k]]
    ELSE [k \in DOMAIN clients \ {sessionId} |-> clients[k]]

\* A send that puts the message in front of what the socket already holds.
sendToClient_inFront(socket, message) ==
    IF socket.readyState = "OPEN"
    THEN [socket EXCEPT !.received = <<message>> \o @]
    ELSE socket

\* The socket after sendToClient / the body of broadcast's loop: ws.send only
\* if readyState is OPEN.
sendToClient(socket, message) ==
    IF socket.readyState = "OPEN"
    THEN [socket EXCEPT !.received = Append(@, message)]
    ELSE socket

\* A broadcast that sends to every connected client, whatever its session.
broadcastTo_everyone(sessionId, message) ==
    [c \in DOMAIN sockets |-> sendToClient(sockets[c], message)]

\* A broadcast that stops after the first client of the session.
broadcastTo_firstOnly(sessionId, message) ==
    [c \in DOMAIN sockets |->
       IF clientsOf(sessionId) # <<>> /\ c = clientsOf(sessionId)[1]
       THEN sendToClient(sockets[c], message) ELSE sockets[c]]

\* The sockets after broadcast(sessionId, event): every client registered
\* under sessionId is sent the one serialised message.
broadcastTo(sessionId, message) ==
    LET registered == { clientsOf(sessionId)[k] : k \in DOMAIN clientsOf(sessionId) } IN
    [c \in DOMAIN sockets |->
       IF c \in registered THEN sendToClient(sockets[c], message) ELSE sockets[c]]

\* A connection handler that replays the session's earlier events to the
\* new client after the acknowledgment.
Connection_replays(sessionId) ==
    LET c == Len(sockets) + 1
        old == SelectSeq(events, LAMBDA e : e.sessionId = sessionId)
        ws == [readyState |-> "OPEN", sessionId |-> sessionId,
               errorPending |-> FALSE,
               received |-> <<Message(Acknowledgment(sessionId), clock)>> \o
                            [k \in DOMAIN old |-> Message(old[k], clock)]] IN
    /\ Len(sockets) < MaxSockets
    /\ clients' = addClient(sessionId, c)
    /\ sockets' = Append(sockets, ws)
    /\ clock' = clock + 1
    /\ UNCHANGED <<sessions, tasks, approvals, events, reqs, nreq, res>>
    /\ UNCHANGED offBus

\* wss.on("connection"): register the client, then acknowledge.
Connection(sessionId) ==
    LET c == Len(sockets) + 1
        ws == [readyState |-> "OPEN", sessionId |-> sessionId,
               errorPending |-> FALSE, received |-> <<>>] IN
    /\ Len(sockets) < MaxSockets
    /\ clients' = addClient(sessionId, c)
    /\ sockets' = Append(sockets,
                         sendToClient(ws, Message(Acknowledgment(sessionId), clock)))
    /\ clock' = clock + 1
    /\ UNCHANGED <<sessions, tasks, approvals, events, reqs, nreq, res>>
    /\ UNCHANGED offBus

\* The connection of socket c ends (the peer closes, or the transport fails):
\* ws leaves OPEN at once and emits 'error' (on a failure) and 'close' later.
ConnectionLost(c, failure) ==
    /\ sockets[c].readyState = "OPEN"
    /\ sockets' = [sockets EXCEPT ![c].readyState = "CLOSING",
                                  ![c].errorPending = failure]
    /\ UNCHANGED <<routeVars, clients>>
    /\ UNCHANGED offBus

\* ws.on("error")
OnError(c) ==
    /\ sockets[c].errorPending
    /\ clients' = removeClient(sockets[c].sessionId, c)
    /\ sockets' = [sockets EXCEPT ![c].errorPending = FALSE]
    /\ UNCHANGED routeVars
    /\ UNCHANGED offBus

\* ws.on("close")
OnClose(c) ==
    /\ sockets[c].readyState = "CLOSING"
    /\ ~sockets[c].errorPending
    /\ clients' = removeClient(sockets[c].sessionId, c)
    /\ sockets' = [sockets EXCEPT ![c].readyState = "CLOSED"]
    /\ UNCHANGED routeVars
    /\ UNCHANGED offBus

\* The pings answered so far.
Pongs ==
    Cardinality({ ck \in (DOMAIN sockets) \X (1..(MaxSockets + MaxPublished + MaxPings)) :
                    /\ ck[2] \in DOMAIN sockets[ck[1]].received
                    /\ sockets[ck[1]].received[ck[2]].event.detail = "pong" })

\* A message handler that answers a ping to every client of the session.
OnMessage_answersSession(c, type) ==
    /\ sockets[c].readyState = "OPEN"
    /\ IF type = "ping"
       THEN /\ Pongs < MaxPings
            /\ sockets' = broadcastTo(sockets[c].sessionId,
                                      Message(Pong(sockets[c].sessionId), clock))
            /\ clock' = clock + 1
       ELSE UNCHANGED <<sockets, clock>>
    /\ UNCHANGED <<sessions, tasks, approvals, events, reqs, nreq, res, clients>>
    /\ UNCHANGED offBus

\* ws.on("message") with handleClientMessage: a ping is answered to the sender,
\* subscribe_task, any other type and text that is not JSON do nothing.
OnMessage(c, type) ==
    /\ sockets[c].readyState = "OPEN"
    /\ IF type = "ping"
       THEN /\ Pongs < MaxPings
            /\ sockets' = [sockets EXCEPT ![c] =
                  sendToClient(@, Message(Pong(sockets[c].sessionId), clock))]
            /\ clock' = clock + 1
       ELSE UNCHANGED <<sockets, clock>>
    /\ UNCHANGED <<sessions, tasks, approvals, events, reqs, nreq, res, clients>>
    /\ UNCHANGED offBus

\* A route handler calls streamingService.sendLogLine(sessionId, null, ...) or
\* sendTaskStart: the event is built with the current time and broadcast.
Publish(event) ==
    /\ Len(events) < MaxPublished
    /\ events' = broadcast(<<event>>)
    /\ sockets' = broadcastTo(event.sessionId, Message(event, clock))
    /\ clock' = clock + 1
    /\ UNCHANGED <<sessions, tasks, approvals, reqs, nreq, res, clients>>
    /\ UNCHANGED offBus

ClientMessages == {"ping", "subscribe_task", "not json"}

PublishedEvents ==
    { sendLogLine(s, None, "Received message") : s \in SessionIds }

NextBus ==
    \/ \E s \in SessionIds : Connection(s)
    \/ \E c \in DOMAIN sockets, failure \in BOOLEAN : ConnectionLost(c, failure)
    \/ \E c \in DOMAIN sockets : OnError(c)
    \/ \E c \in DOMAIN sockets : OnClose(c)
    \/ \E c \in DOMAIN sockets, type \in ClientMessages : OnMessage(c, type)
    \/ \E event \in PublishedEvents : Publish(event)

SpecBus == Init /\ [][NextBus]_vars


(***************************** useWebSocket ********************************)
(* One instance of the hook of client/src/hooks/useWebSocket.ts.  `hook`   *)
(* holds the sessionId prop of the latest render, the status and error     *)
(* state and the three refs; wsockets[s] is a socket made by connect, with *)
(* the sessionId of the connect that made it (its handlers close over that *)
(* connect); timers[t] is a setTimeout of onclose, with the sessionId of   *)
(* the connect it will call.  The browser runs every handler as one step.  *)
(***************************************************************************)
\* The option's default value.  A closed socket keeps the wasClean of the
\* CloseEvent it was given.
reconnectAttempts == 5

\* The hook's state, sockets and timers as one value the callbacks pass on.
HookState(h, ws, tm) == [hook |-> h, wsockets |-> ws, timers |-> tm]

\* connect(), of the render made with sessionId
connect(st, sessionId) ==
    IF st.hook.wsRef # None /\ st.wsockets[st.hook.wsRef].readyState = "OPEN"
    THEN st
    ELSE [st EXCEPT !.hook.status = "connecting",
                    !.hook.error = NoError,
                    !.hook.wsRef = Len(st.wsockets) + 1,
                    !.wsockets = Append(@, [readyState |-> "CONNECTING",
                                            sessionId |-> sessionId,
                                            opened |-> FALSE,
                                            wasClean |-> FALSE])]

\* disconnect(): clearTimeout on the timer last set, close() on the socket
\* in wsRef, which leaves CONNECTING or OPEN for CLOSING.
disconnect(st) ==
    LET t == st.hook.reconnectTimeout
        s == st.hook.wsRef IN
    [st EXCEPT !.timers = IF t # None THEN [@ EXCEPT ![t].pending = FALSE] ELSE @,
               !.wsockets = IF s # None /\ @[s].readyState \in {"CONNECTING", "OPEN"}
                            THEN [@ EXCEPT ![s].readyState = "CLOSING"] ELSE @,
               !.hook.wsRef = None,
               !.hook.status = "disconnected"]

\* socket.onopen
onopen(st) ==
    [st EXCEPT !.hook.status = "connected", !.hook.error = NoError,
               !.hook.reconnectCount = 0]

\* socket.onerror
onerror(st) ==
    [st EXCEPT !.hook.error = "WebSocket connection error",
               !.hook.status = "disconnected"]

\* An onclose that also reconnects after a clean close.
onclose_ignoresClean(st, wasClean, sessionId) ==
    LET closed == [st EXCEPT !.hook.status = "disconnected", !.hook.wsRef = None] IN
    IF st.hook.reconnectCount < reconnectAttempts
    THEN [closed EXCEPT !.hook.reconnectCount = @ + 1,
                        !.hook.reconnectTimeout = Len(st.timers) + 1,
                        !.timers = Append(@, [sessionId |-> sessionId,
                                              pending |-> TRUE])]
    ELSE closed

\* socket.onclose of a socket made by the connect of sessionId
onclose(st, wasClean, sessionId) ==
    LET closed == [st EXCEPT !.hook.status = "disconnected", !.hook.wsRef = None] IN
    IF ~wasClean /\ st.hook.reconnectCount < reconnectAttempts
    THEN [closed EXCEPT !.hook.reconnectCount = @ + 1,
                        !.hook.reconnectTimeout = Len(st.timers) + 1,
                        !.timers = Append(@, [sessionId |-> sessionId,
                                              pending |-> TRUE])]
    ELSE closed

Now == HookState(hook, wsockets, timers)

Becomes(st) ==
    /\ hook' = st.hook
    /\ wsockets' = st.wsockets
    /\ timers' = st.timers
    /\ UNCHANGED <<routeVars, busVars, defaultSessionId, page, managerVars>>

\* The component mounts: useEffect runs connect().
Mount(sessionId) ==
    /\ ~hook.mounted
    /\ wsockets = <<>>
    /\ Becomes(connect([Now EXCEPT !.hook.mounted = TRUE,
                                   !.hook.sessionId = sessionId], sessionId))

\* A render with another sessionId: the effect's cleanup runs disconnect(),
\* then the effect runs the new connect().
ChangeSession(sessionId) ==
    /\ hook.mounted
    /\ sessionId # hook.sessionId
    /\ hook.changes < MaxSessionChanges
    /\ Len(wsockets) < MaxClientSockets
    /\ Becomes(connect(disconnect([Now EXCEPT !.hook.sessionId = sessionId,
                                              !.hook.changes = @ + 1]),
                       sessionId))

\* The component unmounts: the effect's cleanup runs disconnect().
Unmount ==
    /\ hook.mounted
    /\ Becomes(disconnect([Now EXCEPT !.hook.mounted = FALSE]))

\* The connection of socket s is established.
SocketOpens(s) ==
    /\ wsockets[s].readyState = "CONNECTING"
    /\ Becomes(onopen([Now EXCEPT !.wsockets[s].readyState = "OPEN",
                                  !.wsockets[s].opened = TRUE]))

\* The connection of socket s fails: error and close (not clean) are fired.
SocketFails(s) ==
    /\ wsockets[s].readyState \in {"CONNECTING", "OPEN"}
    /\ Becomes(onclose(onerror([Now EXCEPT !.wsockets[s].readyState = "CLOSED"]),
                       FALSE, wsockets[s].sessionId))

\* The server closes socket s with a closing handshake.
ServerCloses(s) ==
    /\ wsockets[s].readyState = "OPEN"
    /\ Becomes(onclose([Now EXCEPT !.wsockets[s].readyState = "CLOSED",
                                   !.wsockets[s].wasClean = TRUE],
                       TRUE, wsockets[s].sessionId))

\* The close() of disconnect takes effect.  A socket closed before it was
\* established fails: error, then a close that is not clean.
CloseCompletes(s, wasClean) ==
    /\ wsockets[s].readyState = "CLOSING"
    /\ LET closed == [Now EXCEPT !.wsockets[s].readyState = "CLOSED",
                                 !.wsockets[s].wasClean =
                                     wsockets[s].opened /\ wasClean] IN
       IF wsockets[s].opened
       THEN Becomes(onclose(closed, wasClean, wsockets[s].sessionId))
       ELSE /\ ~wasClean
            /\ Becomes(onclose(onerror(closed), FALSE, wsockets[s].sessionId))

\* A reconnect timer fires: connect() of the render that set it.
TimerFires(t) ==
    /\ timers[t].pending
    /\ Len(wsockets) < MaxClientSockets
    /\ Becomes(connect([Now EXCEPT !.timers[t].pending = FALSE],
                       timers[t].sessionId))

NextHook ==
    \/ \E s \in SessionIds : Mount(s)
    \/ \E s \in SessionIds : ChangeSession(s)
    \/ Unmount
    \/ \E s \in DOMAIN wsockets : SocketOpens(s)
    \/ \E s \in DOMAIN wsockets : SocketFails(s)
    \/ \E s \in DOMAIN wsockets : ServerCloses(s)
    \/ \E s \in DOMAIN wsockets, wasClean \in BOOLEAN : CloseCompletes(s, wasClean)
    \/ \E t \in DOMAIN timers : TimerFires(t)

SpecHook == Init /\ [][NextHook]_vars

(***************************** claims **************************************)
\* The events broadcast by the step from the unprimed to the primed state.
Emitted == SubSeq(events', Len(events) + 1, Len(events'))

EmittedFor(taskId, types) ==
    { k \in DOMAIN Emitted :
        Emitted[k].taskId = taskId /\ Emitted[k].type \in types }

\* The step in which the handler in slot r moves from one place to another.
Moves(r, from, to) == reqs[r].pc = from /\ reqs'[r].pc = to

\* C1: when stop(S) returns no task of S is running, and no run request that
\* was issued before stop returned is still going to set a task of S running.
C1_StopLeavesNothingRunning ==
    [][\A r \in Slots :
         Moves(r, "stop_log", "idle") =>
           /\ \A t \in DOMAIN tasks' :
                tasks'[t].sessionId = reqs[r].id => tasks'[t].status # "running"
           /\ \A q \in Slots :
                ~(reqs'[q].pc = "run_set_running" /\ reqs'[q].sessionId = reqs[r].id)
      ]_vars

\* The actions that need an approval: the destructive ones and wait_approval.
GatedActions == isDestructive \cup {"wait_approval"}

GatedSession(sessionId) ==
    ~sessions[sessionId].allowDestructive /\ ~sessions[sessionId].dryRunMode

ApprovalsFor(taskId, action) ==
    { a \in DOMAIN approvals :
        approvals[a].taskId = taskId /\ approvals[a].action = action }

\* C2: in a session with allowDestructive = false and dryRunMode = false, while
\* run(T) stands at a gated step there is exactly one Approval for that task and
\* action, and the step is recorded as done only once that Approval is approved.
C2_GatedStepWaitsForApproval ==
    \A r \in Slots :
      LET q == reqs[r] IN
      (/\ q.pc \in {"run_step", "run_next"}
       /\ q.plan[q.i + 1] \in GatedActions
       /\ GatedSession(q.sessionId))
      => /\ Cardinality(ApprovalsFor(q.id, q.plan[q.i + 1])) = 1
         /\ q.pc = "run_next" =>
              \A a \in ApprovalsFor(q.id, q.plan[q.i + 1]) :
                 approvals[a].status = "approved"

\* The approval_resolved events for approval a among evs.
ResolvedEvents(a, evs) ==
    { k \in DOMAIN evs : evs[k].type = "approval_resolved" /\ evs[k].index = a }

\* C3: an approval leaves pending once, to approved or rejected; a resolved
\* approval keeps its status and resolvedAt, and at most one approval_resolved
\* event is ever published for it.
C3_ResolvedExactlyOnce ==
    [][\A a \in DOMAIN approvals :
         /\ approvals[a].status = "pending" =>
              approvals'[a].status \in {"pending", "approved", "rejected"}
         /\ approvals[a].status # "pending" => approvals'[a] = approvals[a]
         /\ Cardinality(ResolvedEvents(a, events')) <= 1
      ]_vars

\* C4: while a task is cancelled its currentStep does not move and no task_step
\* or task_complete event is emitted for it.
C4_CancelledTaskMakesNoProgress ==
    [][\A t \in DOMAIN tasks :
         (tasks[t].status = "cancelled" /\ tasks'[t].status = "cancelled") =>
           /\ tasks'[t].currentStep = tasks[t].currentStep
           /\ EmittedFor(t, {"task_step", "task_complete"}) = {}
      ]_vars

\* C5: a completed or cancelled task changes status only by the status update
\* of a run request, which makes it running.
C5_CompletedCancelledTerminal ==
    [][\A t \in DOMAIN tasks :
         (tasks[t].status \in {"completed", "cancelled"}
            /\ tasks'[t].status # tasks[t].status) =>
           /\ tasks'[t].status = "running"
           /\ \E r \in Slots :
                reqs[r].id = t /\ Moves(r, "run_set_running", "run_begin")
      ]_vars

\* C6: a running task has 0 <= currentStep <= totalSteps, and from one state to
\* the next in which it is running its currentStep does not decrease.
C6_CurrentStepMonotonic ==
    [][\A t \in DOMAIN tasks :
         /\ tasks'[t].status = "running" =>
              (0 <= tasks'[t].currentStep
                 /\ tasks'[t].currentStep <= tasks'[t].totalSteps)
         /\ (tasks[t].status = "running" /\ tasks'[t].status = "running") =>
              tasks'[t].currentStep >= tasks[t].currentStep
      ]_vars

\* The index of the step of the plan with this action.
StepOf(plan, action) == CHOOSE i \in 0..(Len(plan) - 1) : plan[i + 1] = action

\* C7: when the resolve request that rejected the Approval of a running task's
\* step responds, the task is failed with error "step rejected by operator",
\* and its currentStep is still the index of that step.
C7_RejectionFailsTask ==
    [][\A r \in Slots :
         LET a == reqs[r].id
             t == approvals[a].taskId IN
         (/\ Moves(r, "resolve_send", "idle")
          /\ reqs[r].status = "rejected"
          /\ t \in DOMAIN tasks
          /\ tasks[t].status = "running")
         => /\ tasks'[t].status = "failed"
            /\ tasks'[t].error = "step rejected by operator"
            /\ tasks'[t].currentStep = StepOf(tasks[t].plan, approvals[a].action)
            /\ res'.code = 200
      ]_vars

\* C8: when the state update of a step of a running task raises, the task is
\* failed with its error set and its currentStep unchanged, and a task_error
\* event is emitted for it.
C8_StepErrorFailsTask ==
    [][\A r \in Slots :
         LET t == reqs[r].id IN
         (Moves(r, "run_step", "idle") /\ tasks[t].status = "running")
         => /\ tasks'[t].status = "failed"
            /\ tasks'[t].error # NoError
            /\ tasks'[t].currentStep = tasks[t].currentStep
            /\ EmittedFor(t, {"task_error"}) # {}
      ]_vars

\* C9: a task cancelled with currentStep = 0 stays cancelled with currentStep = 0
\* until the status update of a run request, and that update starts it at 0.
C9_CancelBeforeFirstStep ==
    [][\A t \in DOMAIN tasks :
         LET restart == \E r \in Slots :
                          reqs[r].id = t /\ Moves(r, "run_set_running", "run_begin") IN
         /\ (tasks[t].status = "cancelled" /\ tasks[t].currentStep = 0 /\ ~restart)
              => (tasks'[t].status = "cancelled" /\ tasks'[t].currentStep = 0)
         /\ restart => (tasks'[t].status = "running" /\ tasks'[t].currentStep = 0)
      ]_vars

\* C10: the status update of a run request on a failed task (the retry) adds one
\* to retryCount, makes the task running and keeps the recorded currentStep.
C10_RetryResumes ==
    [][\A r \in Slots :
         LET t == reqs[r].id IN
         (Moves(r, "run_set_running", "run_begin") /\ tasks[t].status = "failed")
         => /\ tasks'[t].retryCount = tasks[t].retryCount + 1
            /\ tasks'[t].status = "running"
            /\ tasks'[t].currentStep = tasks[t].currentStep
      ]_vars

\* The session simulates: dryRunMode = true, allowDestructive = false.
DryRunSession(sessionId) ==
    sessions[sessionId].dryRunMode /\ ~sessions[sessionId].allowDestructive

\* The run handler in slot r is the only request that has acted on its task or
\* on its task's session: nothing else is in flight for them, and the events
\* so far show one task_start for the task and no cancel or stop.
RunsAlone(r) ==
    LET t == reqs[r].id
        s == reqs[r].sessionId IN
    /\ \A q \in Slots \ {r} :
          ~(reqs[q].kind \in {"run", "cancel"} /\ reqs[q].id = t)
          /\ ~(reqs[q].kind = "stop" /\ reqs[q].id = s)
    /\ Cardinality({ k \in DOMAIN events :
                       events[k].taskId = t /\ events[k].type = "task_start" }) = 1
    /\ \A k \in DOMAIN events :
          /\ ~(events[k].type = "log_line" /\ events[k].taskId = t)
          /\ ~(events[k].type = "log_line" /\ events[k].sessionId = s
                 /\ events[k].detail = "Emergency stop triggered")

\* C11: in a dry-run session a run request creates no Approval and no
\* approval_required event is ever broadcast; when a run that is the only
\* request on its task answers, on a plan with a destructive step, the task is
\* completed with currentStep = totalSteps = the length of the plan.
C11_DryRunCompletesWithoutApproval ==
    [][\A r \in Slots :
         LET t == reqs[r].id IN
         /\ (reqs[r].kind = "run" /\ reqs'[r] # reqs[r]
               /\ DryRunSession(reqs[r].sessionId))
              => /\ approvals' = approvals
                 /\ \A k \in DOMAIN events' : events'[k].type # "approval_required"
         /\ (/\ Moves(r, "run_finish", "idle")
             /\ DryRunSession(reqs[r].sessionId)
             /\ \E k \in DOMAIN reqs[r].plan : reqs[r].plan[k] \in GatedActions
             /\ RunsAlone(r))
              => /\ res' = Response("run", t, 200)
                 /\ tasks'[t].status = "completed"
                 /\ tasks'[t].currentStep = tasks'[t].totalSteps
                 /\ tasks'[t].currentStep = Len(reqs[r].plan)
      ]_vars

\* A run of the message route's plan has answered 200 in a dry-run session and
\* left its task completed at step 2, and nobody cancelled or stopped.
C11_Witness ==
    \E t \in DOMAIN tasks :
      /\ res = Response("run", t, 200)
      /\ DryRunSession(tasks[t].sessionId)
      /\ tasks[t].plan = MessagePlan
      /\ tasks[t].status = "completed"
      /\ tasks[t].currentStep = 2
      /\ approvals = <<>>
      /\ \A k \in DOMAIN events : events[k].detail # "Task cancelled by user"

(***************************** event bus ***********************************)
\* The clients registered under a session.
Registered(sessionId) ==
    { clientsOf(sessionId)[k] : k \in DOMAIN clientsOf(sessionId) }

\* This step is a broadcast; Published is its event and Sent its message.
Publishing == Len(events') = Len(events) + 1
Published == events'[Len(events')]
Sent == Message(Published, clock)

\* Socket c holds the published message stamped t.
Got(c, t) ==
    \E k \in DOMAIN sockets[c].received :
       /\ sockets[c].received[k].timestamp = t
       /\ sockets[c].received[k].event.type = "log_line"

\* C12 as stated: a broadcast on S reaches every client registered under S, and
\* a client whose close or error handler has returned gets nothing.
C12_EveryRegisteredObserverReceives ==
    [][Publishing =>
         \A c \in DOMAIN sockets :
            IF c \in Registered(Published.sessionId)
            THEN sockets'[c].received = Append(sockets[c].received, Sent)
            ELSE c \notin Registered(sockets[c].sessionId)
                   => sockets'[c].received = sockets[c].received
      ]_vars

\* C12: a broadcast on S appends the event to every client registered under S
\* whose connection is open (a registered client whose connection is closing
\* is skipped), and a client whose close or error handler has returned
\* receives nothing broadcast afterwards.
C12_EveryOpenObserverReceives ==
    [][Publishing =>
         \A c \in DOMAIN sockets :
            /\ (c \in Registered(Published.sessionId)
                  /\ sockets[c].readyState = "OPEN")
                 => sockets'[c].received = Append(sockets[c].received, Sent)
            /\ c \notin Registered(sockets[c].sessionId)
                 => sockets'[c].received = sockets[c].received
      ]_vars

\* Three observers of one session all hold the first event; the third then
\* closed and was removed, and only the other two hold the second event.
C12_Witness ==
    /\ Len(sockets) = 3
    /\ Len(events) = 2
    /\ \A c \in 1..3 : sockets[c].sessionId = events[1].sessionId
    /\ events[2].sessionId = events[1].sessionId
    /\ sockets[3].readyState = "CLOSED"
    /\ 3 \notin Registered(sockets[3].sessionId)
    /\ \E t1, t2 \in 1..clock :
          /\ t1 < t2
          /\ \A c \in 1..3 : Got(c, t1)
          /\ Got(1, t2) /\ Got(2, t2) /\ ~Got(3, t2)

\* C13: every observer holds its messages in the order they were sent, which
\* for broadcast events is the order of the broadcast calls: timestamps never
\* decrease along what a socket has received, so any two observers hold the
\* events they both received in the same order.
C13_ObserversSeePublishOrder ==
    \A c \in DOMAIN sockets :
       \A j, k \in DOMAIN sockets[c].received :
          j < k => sockets[c].received[j].timestamp < sockets[c].received[k].timestamp

\* Two observers of one session were connected across two broadcasts and hold
\* both events, the earlier one first.
C13_Witness ==
    /\ Len(events) = 2
    /\ events[1].sessionId = events[2].sessionId
    /\ \E c, d \in DOMAIN sockets :
          /\ c # d
          /\ \A x \in {c, d} :
                /\ sockets[x].sessionId = events[1].sessionId
                /\ Len(sockets[x].received) = 3
                /\ sockets[x].received[2].event = events[1]
                /\ sockets[x].received[3].event = events[2]
                /\ sockets[x].received[2].timestamp < sockets[x].received[3].timestamp

\* C14: when a broadcast on S meets a registered client whose connection is
\* unusable, the other clients of S still get the event and the unusable
\* client is no longer registered when broadcast returns.
C14_FailedObserverRemoved ==
    [][Publishing =>
         \A c \in Registered(Published.sessionId) :
            IF sockets[c].readyState = "OPEN"
            THEN sockets'[c].received = Append(sockets[c].received, Sent)
            ELSE c \notin { clients'[Published.sessionId][k] :
                              k \in DOMAIN clients'[Published.sessionId] }
      ]_vars

\* C15: a broadcast on a session without registered clients changes nothing in
\* the service; a new connection starts with the acknowledgment alone; and a
\* socket only ever gains, at its end, a message built in that very step, so
\* an observer never receives an event broadcast before it connected.
C15_NoSubscriberDropsEvent ==
    [][/\ (Publishing /\ Published.sessionId \notin DOMAIN clients)
            => UNCHANGED <<clients, sockets>>
       /\ Len(sockets') > Len(sockets)
            => /\ Len(sockets'[Len(sockets')].received) = 1
               /\ sockets'[Len(sockets')].received[1].timestamp = clock
               /\ sockets'[Len(sockets')].received[1].event.type = "session_start"
       /\ \A c \in DOMAIN sockets :
            \/ sockets'[c].received = sockets[c].received
            \/ Publishing /\ sockets'[c].received = Append(sockets[c].received, Sent)
            \/ sockets'[c].received =
                  Append(sockets[c].received, Message(Pong(sockets[c].sessionId), clock))
      ]_vars

\* The first event of a session was broadcast when nobody was connected; the
\* only observer connected next and holds its acknowledgment and the second
\* event, nothing else.
C15_Witness ==
    /\ Len(sockets) = 1
    /\ Len(events) = 2
    /\ events[1].sessionId = sockets[1].sessionId
    /\ sockets[1].received =
          <<Message(Acknowledgment(sockets[1].sessionId), 2), Message(events[2], 3)>>

(***************************** task state **********************************)
\* C16: a running task has currentStep < totalSteps and no unresolved
\* approval waiting on it.
C16_RunningTaskHasStepsLeft ==
    \A t \in DOMAIN tasks :
       tasks[t].status = "running"
         => /\ tasks[t].currentStep < tasks[t].totalSteps
            /\ \A a \in DOMAIN approvals :
                  ~(approvals[a].taskId = t /\ approvals[a].status = "pending")

\* C17: a completed task has currentStep = totalSteps = the length of its
\* plan, and no error.
C17_CompletedTaskIsWhole ==
    \A t \in DOMAIN tasks :
       tasks[t].status = "completed"
         => /\ tasks[t].currentStep = tasks[t].totalSteps
            /\ tasks[t].currentStep = Len(tasks[t].plan)
            /\ tasks[t].error = NoError

IsPrefix(s, t) == Len(s) <= Len(t) /\ s = SubSeq(t, 1, Len(s))

\* The task_* events of task t, in broadcast order.
TaskEvents(t) ==
    SelectSeq(events, LAMBDA e :
        e.taskId = t /\ e.type \in {"task_start", "task_step", "task_complete",
                                    "task_error"})

\* What one run of task t is to emit.
RunEvents(t) ==
    LET s == tasks[t].sessionId
        plan == tasks[t].plan
        n == Len(plan) IN
    <<StreamEvent("task_start", s, t, None, None, "")>> \o
    [k \in 1..n |-> StreamEvent("task_step", s, t, k - 1, n, plan[k])] \o
    <<StreamEvent("task_complete", s, t, None, None, "success")>>

\* The task_step events of task t broadcast so far.
StepsAnnounced(t) ==
    Len(SelectSeq(TaskEvents(t), LAMBDA e : e.type = "task_step"))

C19_RunOnRunningTaskRejected ==
    [][\A r \in Slots :
         /\ (reqs[r].pc = "run_set_running" /\ reqs'[r] # reqs[r]
               /\ tasks[reqs[r].id].status = "running")
              => /\ tasks' = tasks
                 /\ events' = events
                 /\ res' = Response("run", reqs[r].id, 409)
         /\ \A q \in Slots \ {r} :
               ~(/\ reqs'[r].kind = "run" /\ reqs'[q].kind = "run"
                 /\ reqs'[r].id = reqs'[q].id
                 /\ reqs'[r].pc \in {"run_begin", "run_step", "run_next", "run_complete"}
                 /\ reqs'[q].pc \in {"run_begin", "run_step", "run_next", "run_complete"})
      ]_vars

\* C20: stop(S) sets S idle and nothing else; every task it cancels is a task
\* of S that is running, and only that task's status changes, so pending,
\* completed, failed and cancelled tasks and the tasks of other sessions stay
\* as they are; it ends with exactly one log_line on S.
C20_StopFrame ==
    [][\A r \in Slots :
         /\ (reqs[r].pc = "idle" /\ reqs'[r].kind = "stop")
              => /\ sessions' = [sessions EXCEPT ![reqs'[r].id].status = "idle"]
                 /\ tasks' = tasks
                 /\ events' = events
         /\ (reqs[r].pc = "stop_cancel" /\ reqs'[r] # reqs[r])
              => LET t == Head(reqs[r].todo) IN
                 /\ tasks[t].sessionId = reqs[r].id
                 /\ tasks[t].status = "running"
                 /\ tasks' = [tasks EXCEPT ![t].status = "cancelled"]
                 /\ sessions' = sessions
                 /\ events' = events
         /\ Moves(r, "stop_log", "idle")
              => /\ Emitted = <<sendLogLine(reqs[r].id, None, "Emergency stop triggered")>>
                 /\ tasks' = tasks
                 /\ sessions' = sessions
      ]_vars

(***************************** unknown ids *********************************)
\* C21: a run, cancel, stop or resolve request whose id names no row answers
\* 404 at once and leaves sessions, tasks, approvals and the broadcast log as
\* they were; a handler that goes on past its first statement has a row.
C21_UnknownIdNotFound ==
    [][/\ (nreq' = nreq + 1 /\ reqs' = reqs)
            => /\ sessions' = sessions /\ tasks' = tasks
               /\ approvals' = approvals /\ events' = events
               /\ res'.kind \in {"run", "cancel", "stop", "resolve"}
                    => /\ res'.code = 404
                       /\ res'.kind \in {"run", "cancel"} => res'.id \notin DOMAIN tasks
                       /\ res'.kind = "stop" => res'.id \notin DOMAIN sessions
                       /\ res'.kind = "resolve" => res'.id \notin DOMAIN approvals
       /\ \A r \in Slots :
            /\ reqs'[r].kind \in {"run", "cancel"} => reqs'[r].id \in DOMAIN tasks
            /\ reqs'[r].kind = "stop" => reqs'[r].id \in DOMAIN sessions
            /\ reqs'[r].kind = "resolve" => reqs'[r].id \in DOMAIN approvals
      ]_vars

\* Stop of a session that does not exist was answered 404 while the one
\* existing session is still running and nothing was broadcast.
C21_Witness ==
    /\ res = Response("stop", 2, 404)
    /\ Len(sessions) = 1
    /\ sessions[1].status = "running"
    /\ events = <<>>

(***************************** approval preference *************************)
\* C22: in a gated session a gated step is recorded only under an approval of
\* its action type given in that same session: the step's own approval, or an
\* earlier one approved with dontAskAgain; an approval of another action type
\* or of another session does not open the gate, and nothing opens it on
\* its own.
C22_GateOpensOnlyByApprovalOfAction ==
    \A r \in Slots :
      LET q == reqs[r] IN
      (/\ q.pc = "run_next"
       /\ q.plan[q.i + 1] \in GatedActions
       /\ GatedSession(q.sessionId))
      => \E a \in DOMAIN approvals :
            /\ approvals[a].sessionId = q.sessionId
            /\ approvals[a].action = q.plan[q.i + 1]
            /\ approvals[a].status = "approved"

(***************************** GET /api/sessions/:sessionId/approvals ******)
(* The pending approvals of a session as the route returns them.  The      *)
(* SELECT of getPendingApprovals has no ORDER BY, so the database may      *)
(* return the matching rows in any order.                                  *)
(***************************************************************************)
\* The sequences that hold every element of S once.
Orderings(S) ==
    { seq \in [1..Cardinality(S) -> S] :
        \A j, k \in 1..Cardinality(S) : j # k => seq[j] # seq[k] }

\* storage.createApproval for a session, with no task
CreateSessionApproval(sessionId, action) ==
    /\ Len(approvals) < MaxPending
    /\ sessionId \in DOMAIN sessions
    /\ approvals' = createApproval([sessionId |-> sessionId, action |-> action])
    /\ UNCHANGED <<sessions, tasks, events, reqs, clock, nreq, res>>
    /\ UNCHANGED offRoute

\* The route: res.json(await storage.getPendingApprovals(req.params.sessionId))
GetPendingApprovals(sessionId) ==
    /\ \E rows \in Orderings(getPendingApprovals(sessionId)) :
          res' = [kind |-> "approvals", id |-> sessionId, code |-> 200,
                  body |-> rows]
    /\ UNCHANGED <<sessions, tasks, approvals, events, reqs, clock, nreq>>
    /\ UNCHANGED offRoute

NextPending ==
    \/ \E insertSession \in SessionInserts : CreateSession(insertSession)
    \/ \E s \in SessionIds, action \in {"shell_exec", "git_push"} :
          CreateSessionApproval(s, action)
    \/ \E r \in Slots, a \in 1..MaxPending, approved \in BOOLEAN,
          dontAskAgain \in BOOLEAN :
          ResolveUpdate(r, a, approved, dontAskAgain)
    \/ \E r \in Slots : ResolveSend(r)
    \/ \E s \in SessionIds : GetPendingApprovals(s)

SpecPending == Init /\ [][NextPending]_vars

\* C23: the route answers with exactly the approvals of the session that are
\* pending, each once, in the order of their creation.
C23_PendingForInCreationOrder ==
    [][(res' # res /\ res'.kind = "approvals") =>
         LET rows == res'.body IN
         /\ { rows[k] : k \in DOMAIN rows } =
               { a \in DOMAIN approvals :
                   approvals[a].sessionId = res'.id /\ approvals[a].status = "pending" }
         /\ \A j, k \in DOMAIN rows : j < k => rows[j] < rows[k]
      ]_vars

(***************************** session addressing **************************)
\* C24: whatever a socket has received is an event of the session it
\* connected for: a broadcast on S never reaches an observer of another
\* session.
C24_DeliveredOnlyToOwnSession ==
    \A c \in DOMAIN sockets :
       \A k \in DOMAIN sockets[c].received :
          sockets[c].received[k].event.sessionId = sockets[c].sessionId

\* Two open, registered observers of different sessions; an event broadcast on
\* the session of the first is held by the first, the second has only its
\* acknowledgment.
C24_Witness ==
    \E c, d \in DOMAIN sockets :
       /\ sockets[c].sessionId # sockets[d].sessionId
       /\ sockets[c].readyState = "OPEN" /\ sockets[d].readyState = "OPEN"
       /\ c \in Registered(sockets[c].sessionId)
       /\ d \in Registered(sockets[d].sessionId)
       /\ Len(events) = 1
       /\ events[1].sessionId = sockets[c].sessionId
       /\ Len(sockets[c].received) = 2
       /\ sockets[c].received[2].event = events[1]
       /\ Len(sockets[d].received) = 1
       /\ sockets[d].received[1].timestamp < sockets[c].received[2].timestamp

(***************************** frame of run and cancel *********************)
\* C25: every step of a run or cancel handler for task T leaves the sessions,
\* the approvals and every task other than T as they were (so two tasks of a
\* session can be running side by side).
C25_RunCancelTouchOnlyTheirTask ==
    [][\A r \in Slots :
         LET q == IF reqs[r].kind = "none" THEN reqs'[r] ELSE reqs[r] IN
         (q.kind \in {"run", "cancel"} /\ reqs'[r] # reqs[r])
           => /\ sessions' = sessions
              /\ approvals' = approvals
              /\ DOMAIN tasks' = DOMAIN tasks
              /\ \A t \in DOMAIN tasks : t # q.id => tasks'[t] = tasks[t]
      ]_vars

\* Two tasks of one session are running at the same time, each under its own
\* run handler, the first already one step ahead.
C25_Witness ==
    /\ Len(tasks) = 2
    /\ tasks[1].sessionId = tasks[2].sessionId
    /\ tasks[1].status = "running" /\ tasks[2].status = "running"
    /\ tasks[1].currentStep = 1 /\ tasks[2].currentStep = 0
    /\ \E r, q \in Slots :
          /\ reqs[r].kind = "run" /\ reqs[r].id = 1
          /\ reqs[q].kind = "run" /\ reqs[q].id = 2

(***************************** client messages *****************************)
\* C26: apart from the acknowledgment of a new connection and the events that
\* are broadcast, the only thing the service ever sends is the answer to a
\* ping: one pong event, appended to the socket of one open observer, while
\* every other socket, the registry and the broadcast log stay as they were.
\* Any other client message (subscribe_task) sends nothing and changes nothing.
C26_PingAnsweredToSenderOnly ==
    [][(Len(sockets') = Len(sockets) /\ events' = events) =>
         \/ \A c \in DOMAIN sockets : sockets'[c].received = sockets[c].received
         \/ \E c \in DOMAIN sockets :
              /\ sockets[c].readyState = "OPEN"
              /\ sockets' = [sockets EXCEPT ![c].received =
                    Append(@, Message(Pong(sockets[c].sessionId), clock))]
              /\ clients' = clients
      ]_vars

\* Two open observers of one session; the first pinged and holds the pong
\* after its acknowledgment, the second holds its acknowledgment only.
C26_Witness ==
    /\ Len(sockets) = 2
    /\ sockets[1].sessionId = sockets[2].sessionId
    /\ sockets[1].readyState = "OPEN" /\ sockets[2].readyState = "OPEN"
    /\ Len(sockets[1].received) = 2
    /\ sockets[1].received[2].event = Pong(sockets[1].sessionId)
    /\ Len(sockets[2].received) = 1
    /\ sockets[2].received[1].timestamp < sockets[1].received[2].timestamp

(***************************** registry ************************************)
\* How often socket c is listed under session key k.
Listed(reg, k, c) == Cardinality({ j \in DOMAIN reg[k] : reg[k][j] = c })

\* C27: after every step the registry has no key with an empty list, every
\* open connection is listed once under its own session and under no other,
\* no connection is listed under a foreign session, a connection whose close
\* or error handler has just run is listed nowhere, and one that is listed
\* nowhere stays so.
C27_RegistryWellFormed ==
    [][/\ \A k \in DOMAIN clients' : clients'[k] # <<>>
       /\ \A c \in DOMAIN sockets' :
            /\ sockets'[c].readyState = "OPEN"
                 => /\ sockets'[c].sessionId \in DOMAIN clients'
                    /\ Listed(clients', sockets'[c].sessionId, c) = 1
            /\ \A k \in DOMAIN clients' :
                 /\ Listed(clients', k, c) <= 1
                 /\ k # sockets'[c].sessionId => Listed(clients', k, c) = 0
       /\ \A c \in DOMAIN sockets :
            /\ (\/ sockets[c].errorPending /\ ~sockets'[c].errorPending
                \/ sockets[c].readyState # "CLOSED" /\ sockets'[c].readyState = "CLOSED"
                \/ \A k \in DOMAIN clients : Listed(clients, k, c) = 0)
                 => \A k \in DOMAIN clients' : Listed(clients', k, c) = 0
      ]_vars

\* The first connection has ended and its close handler has run; it was the
\* only client of its session, whose key is gone; the second
\* connection, of the other session, is open and listed.
C27_Witness ==
    /\ Len(sockets) = 2
    /\ sockets[1].readyState = "CLOSED"
    /\ sockets[2].readyState = "OPEN"
    /\ sockets[1].sessionId # sockets[2].sessionId
    /\ DOMAIN clients = {sockets[2].sessionId}
    /\ clients[sockets[2].sessionId] = <<2>>

(***************************** default session *****************************)
\* C28: getOrCreateDefaultSession inserts a session only while no recorded
\* default session exists in storage, and consecutive answers of
\* GET /api/sessions/current name the same session.
C28_OneDefaultSession ==
    [][/\ \A r \in Slots :
            (reqs[r].pc = "current_create" /\ reqs'[r].pc = "current_record")
              => defaultSessionId \notin DOMAIN sessions
       /\ (res.kind = "current" /\ res'.kind = "current") => res'.id = res.id
      ]_vars

(***************************** reconnecting ********************************)
\* Socket s is closed in this step / is established in this step.
Closes(s) == wsockets[s].readyState # "CLOSED" /\ wsockets'[s].readyState = "CLOSED"
Opens(s) == wsockets[s].readyState = "CONNECTING" /\ wsockets'[s].readyState = "OPEN"

\* C29: a reconnect timer is set only in the close of a socket that was not
\* clean and while fewer than reconnectAttempts (5) reconnects have been
\* counted, and it counts one more; the counter never exceeds 5 and goes back
\* to 0 exactly when a socket opens; a close that is clean, or that comes with
\* the counter at 5, sets no timer and leaves the hook disconnected without
\* a socket.
C29_ReconnectBounded ==
    [][/\ hook'.reconnectCount <= reconnectAttempts
       /\ Len(timers') > Len(timers)
            => /\ \E s \in DOMAIN wsockets : Closes(s) /\ ~wsockets'[s].wasClean
               /\ hook.reconnectCount < reconnectAttempts
               /\ hook'.reconnectCount = hook.reconnectCount + 1
               /\ Len(timers') = Len(timers) + 1
       /\ hook'.reconnectCount # hook.reconnectCount
            => \/ Len(timers') > Len(timers)
               \/ hook'.reconnectCount = 0 /\ \E s \in DOMAIN wsockets : Opens(s)
       /\ \A s \in DOMAIN wsockets :
            /\ Opens(s) => hook'.reconnectCount = 0 /\ hook'.status = "connected"
            /\ (Closes(s) /\ (wsockets'[s].wasClean
                                \/ hook.reconnectCount = reconnectAttempts))
                 => /\ timers' = timers
                    /\ hook'.status = "disconnected"
                    /\ hook'.wsRef = None
      ]_vars

\* The first connection and five reconnects have all failed: six sockets are
\* closed, the counter stands at 5, no timer is pending and the mounted hook
\* is disconnected.
C29_Witness ==
    /\ hook.mounted
    /\ hook.changes = 0
    /\ hook.reconnectCount = reconnectAttempts
    /\ Len(wsockets) = 6
    /\ \A s \in DOMAIN wsockets : wsockets[s].readyState = "CLOSED"
    /\ Len(timers) = 5
    /\ \A t \in DOMAIN timers : ~timers[t].pending
    /\ hook.status = "disconnected"
    /\ hook.wsRef = None

\* The sockets that are connecting or open.
Live(ws) == { s \in DOMAIN ws : ws[s].readyState \in {"CONNECTING", "OPEN"} }

\* C30: the close of a socket that is not the one in wsRef (a late event of a
\* socket that disconnect() gave up) sets no reconnect timer and leaves wsRef
\* and the status alone; after disconnect() at unmount no timer is pending and
\* no socket is live; and at no time are two sockets of the hook live.
C30_LateEventsHarmless ==
    [][/\ \A s \in DOMAIN wsockets :
            (Closes(s) /\ hook.wsRef # s /\ hook.wsRef # None)
              => /\ hook'.wsRef = hook.wsRef
                 /\ hook'.status = hook.status
                 /\ timers' = timers
       /\ (hook.mounted /\ ~hook'.mounted)
            => /\ \A t \in DOMAIN timers' : ~timers'[t].pending
               /\ Live(wsockets') = {}
       /\ Cardinality(Live(wsockets')) <= 1
      ]_vars

(***************************** Home: the approval modal ********************)
(* The page of one browser: Home holds currentApproval, its Workspace holds *)
(* approvalOpen, and useWebSocket hands every event of the page's session   *)
(* to handleStreamEvent in the order of broadcast.  Workspace is rendered   *)
(* once the session query has settled; until then the hook is connected     *)
(* under the name "default", to which no event is addressed.  The Dialog's  *)
(* own handlers (onOpenChange, Approve, Reject) exist only while the dialog *)
(* is shown.                                                                *)
(***************************************************************************)
\* Home.handleStreamEvent: the cases that touch currentApproval.
handleStreamEvent(st, event) ==
    CASE event.type = "approval_required" ->
           [st EXCEPT !.currentApproval = event.index]
      [] event.type = "approval_resolved" ->
           [st EXCEPT !.currentApproval = None]
      [] OTHER -> st

\* ApprovalModal: `if (!approval) return null`, then <Dialog open={open}>.
Presented(st, a) == st.currentApproval = a /\ st.approvalOpen

Notices == { e \in DOMAIN events : events[e].type = "approval_required" }

\* The session query settles and Workspace mounts:
\* useState(currentApproval !== null).  Events broadcast before the socket
\* was registered are not replayed.
LoadPage(sessionId) ==
    /\ ~page.loaded
    /\ sessionId \in DOMAIN sessions
    /\ page' = [page EXCEPT !.loaded = TRUE, !.sessionId = sessionId,
                            !.approvalOpen = (page.currentApproval # None),
                            !.seen = Len(events)]
    /\ UNCHANGED <<routeVars, busVars, defaultSessionId, hookVars, managerVars>>

\* streamingService.sendApprovalRequired for a pending approval
SendApprovalRequired(a) ==
    /\ Cardinality(Notices) < MaxNotices
    /\ a \in DOMAIN approvals
    /\ approvals[a].status = "pending"
    /\ events' = broadcast(<<sendApprovalRequired(approvals[a].sessionId,
                                                  approvals[a].taskId, a)>>)
    /\ UNCHANGED <<sessions, tasks, approvals, reqs, clock, nreq, res>>
    /\ UNCHANGED offRoute

\* The next event broadcast reaches the page if it is of the page's session:
\* socket.onmessage calls onEvent, which is handleStreamEvent.
Deliver ==
    /\ page.loaded
    /\ page.seen < Len(events)
    /\ LET event == events[page.seen + 1]
           st == [page EXCEPT !.seen = page.seen + 1] IN
       page' = IF event.sessionId = page.sessionId
               THEN handleStreamEvent(st, event) ELSE st
    /\ UNCHANGED <<routeVars, busVars, defaultSessionId, hookVars, managerVars>>

NextModal ==
    \/ CreateSession(DefaultSession)
    \/ \E s \in SessionIds : CreateSessionApproval(s, "shell_exec")
    \/ \E a \in 1..MaxPending : SendApprovalRequired(a)
    \/ \E r \in Slots, a \in 1..MaxPending, approved \in BOOLEAN :
          ResolveUpdate(r, a, approved, FALSE)
    \/ \E r \in Slots : ResolveSend(r)
    \/ \E s \in SessionIds : LoadPage(s)
    \/ Deliver

SpecModal == Init /\ [][NextModal]_vars

\* The page receives an event of the given type about approval a in this step.
Delivers(type, a) ==
    /\ page.loaded
    /\ page'.seen = page.seen + 1
    /\ events[page.seen + 1].sessionId = page.sessionId
    /\ events[page.seen + 1].type = type
    /\ events[page.seen + 1].index = a

\* The delivery of approval_required for a presents a.
ShownOnDelivery ==
    [][\A a \in DOMAIN approvals :
          Delivers("approval_required", a) => Presented(page', a)]_vars

\* An approval_resolved for another approval leaves the current one in place.
KeptOnOtherResolution ==
    [][\A a, b \in DOMAIN approvals :
          (a # b /\ page.currentApproval = a /\ Delivers("approval_resolved", b))
            => page'.currentApproval = a]_vars

\* C31: on a connected client the delivery of approval_required for approval
\* A presents A to the operator (the modal is open with A), and an
\* approval_resolved event for a different approval B does not clear A.
C31_ApprovalShownUntilItIsResolved ==
    [][\A a \in DOMAIN approvals :
          /\ Delivers("approval_required", a) => Presented(page', a)
          /\ \A b \in DOMAIN approvals \ {a} :
                (page.currentApproval = a /\ Delivers("approval_resolved", b))
                  => page'.currentApproval = a
      ]_vars

(***************************** emergency stop ******************************)
\* Workspace: const isRunning = session.status === "running"; EmergencyStop
\* returns null unless isRunning.
isRunning(session) == session.status = "running"

\* C32: whenever a task of a session is running, the session's status is
\* running, so the emergency-stop control is rendered for that session.
C32_RunningTaskShowsEmergencyStop ==
    \A t \in DOMAIN tasks :
        tasks[t].status = "running" => isRunning(sessions[tasks[t].sessionId])

(***************************** the StorageManager's callers ****************)
\* The names a caller may pass; "gcs" names a provider nobody ships.
ProviderNames == {"local", "s3", "gcs", ""}

\* The provider objects a caller may register: the two shipped classes and a
\* caller's own provider under any name.
ProviderObjects ==
    {LocalStorageProvider, S3StorageProvider}
      \cup { [name |-> n, class |-> "CustomProvider"] : n \in ProviderNames }

offManager == <<routeVars, busVars, defaultSessionId, hookVars, page>>

RegisterProvider(provider) ==
    /\ providers' = registerProvider(providers, provider)
    /\ got' = [call |-> "registerProvider", name |-> provider.name, result |-> Void]
    /\ UNCHANGED defaultProvider
    /\ UNCHANGED offManager

SetDefaultProvider(name) ==
    LET out == setDefaultProvider(providers, defaultProvider, name) IN
    /\ defaultProvider' = out.defaultProvider
    /\ got' = [call |-> "setDefaultProvider", name |-> name, result |-> out.result]
    /\ UNCHANGED providers
    /\ UNCHANGED offManager

GetProvider(name) ==
    /\ got' = [call |-> "getProvider", name |-> name,
               result |-> getProvider(providers, defaultProvider, name)]
    /\ UNCHANGED <<providers, defaultProvider>>
    /\ UNCHANGED offManager

NextManager ==
    \/ \E provider \in ProviderObjects : RegisterProvider(provider)
    \/ \E name \in ProviderNames : SetDefaultProvider(name)
    \/ \E name \in ProviderNames \cup {Undefined} : GetProvider(name)

SpecManager == Init /\ [][NextManager]_vars

\* A call of the named method ends in this step.
Calls(method) == got' # got /\ got'.call = method

\* The default provider name is the name of a registered provider.
DefaultProviderRegistered == defaultProvider \in DOMAIN providers

\* A setDefaultProvider with a name that is not registered throws and leaves
\* the default as it was.
RejectsUnknownDefault ==
    (Calls("setDefaultProvider") /\ got'.name \notin DOMAIN providers)
      => (got'.result = Thrown /\ defaultProvider' = defaultProvider)

\* A getProvider called with a name hands back the provider registered under
\* exactly that name, and throws when there is none.
GetsByExactName ==
    (Calls("getProvider") /\ got'.name # Undefined)
      => got'.result = IF got'.name \in DOMAIN providers
                       THEN providers[got'.name] ELSE Thrown

\* The first two parts on their own: they hold in every step of SpecManager.
SetDefaultRejectsUnknown ==
    [][DefaultProviderRegistered' /\ RejectsUnknownDefault]_vars

\* C33: after any sequence of registerProvider, setDefaultProvider and
\* getProvider calls the default provider name is registered; setDefaultProvider
\* with an unregistered name throws and leaves the default unchanged; and
\* getProvider(name) returns the provider registered under exactly that name
\* or throws.
C33_ManagerKeepsNamesExact ==
    [][DefaultProviderRegistered' /\ RejectsUnknownDefault /\ GetsByExactName]_vars

====
